---------------------------- MODULE Spec2Model ----------------------------
(***************************************************************************)
(* A model of the task-list view of stm (package views, TaskListView) and  *)
(* of the part of the SQLite persistence layer it drives (package db).     *)
(*                                                                         *)
(* The view is a record v whose fields are the fields of TaskListView.     *)
(* Every handler of the Go code is an operator that maps the view, the     *)
(* database and the incoming message to the next view, the next database,  *)
(* the commands it returns, the persistence calls it made, a signal        *)
(* (tea.Quit / BackToProjects) and a panic bit (index out of range).       *)
(* Commands returned by Update run asynchronously (one goroutine each):    *)
(* they wait in the bag cmds, are executed by ExecCmd against the view and *)
(* the database as they are at that moment, and their result waits in the  *)
(* bag msgs until Deliver hands it to Update.                              *)
(***************************************************************************)
EXTENDS Integers, Sequences, FiniteSets, Bags, TLC

VARIABLES v, db, cmds, msgs, alive, hist, nkeys

vars == <<v, db, cmds, msgs, alive, hist, nkeys>>

---------------------------------------------------------------------------
(* Bounds of the model.                                                    *)

\* tasks in the store when the view is opened
InitTasks == 3
\* key events in one session
MaxKeys == 5
\* commands and results in flight at one time
MaxInFlight == 2
\* characters a text field holds in the model
MaxText == 1

---------------------------------------------------------------------------
(* Program constants.                                                      *)

\* nil of a *int64 tag filter, and the zero value of an int64 id
NoID == 0

\* ids of the seeded tags, in the insertion order of schema.sql
TagDesign == 1
TagTodo == 2
TagActive == 3
TagComplete == 4

\* the "Status" tag group, the first row of tag_groups
StatusGroup == 1

FocusBackButton == 0
FocusSearchInput == 1
FocusTagDropdown == 2
FocusTaskList == 3

\* CharLimit of the text widgets
SearchCharLimit == 100
TitleCharLimit == 200
DescCharLimit == 1000
NotesCharLimit == 5000
PriorityCharLimit == 2
CommentCharLimit == 2000

\* the single project whose task list is open
ProjectID == 1

---------------------------------------------------------------------------
(* Small helpers.                                                          *)

Max(a, b) == IF a > b THEN a ELSE b
Min(a, b) == IF a < b THEN a ELSE b

clamp(val, minVal, maxVal) ==
    IF val < minVal THEN minVal
    ELSE IF val > maxVal THEN maxVal
    ELSE val

Range(s) == {s[i] : i \in 1..Len(s)}

\* position of x in s, 0 when absent
RECURSIVE IndexFrom(_, _, _)
IndexFrom(s, x, i) ==
    IF i > Len(s) THEN 0
    ELSE IF s[i] = x THEN i
    ELSE IndexFrom(s, x, i + 1)

\* s without its i-th element: append(s[:i], s[i+1:]...)
RemoveAt(s, i) == SubSeq(s, 1, i - 1) \o SubSeq(s, i + 1, Len(s))

---------------------------------------------------------------------------
(* Text: a string is a sequence of one-character strings.                  *)

Spaces == {" ", "\n"}
Digits == {"0", "1", "2", "3", "4", "5", "6", "7", "8", "9"}

DigitVal(c) ==
    CASE c = "0" -> 0 [] c = "1" -> 1 [] c = "2" -> 2 [] c = "3" -> 3
      [] c = "4" -> 4 [] c = "5" -> 5 [] c = "6" -> 6 [] c = "7" -> 7
      [] c = "8" -> 8 [] c = "9" -> 9

\* fmt.Sprintf("%d", n) for 0 <= n <= 99
DigitChar(d) == <<"0", "1", "2", "3", "4", "5", "6", "7", "8", "9">>[d + 1]
FormatInt(n) ==
    IF n < 10 THEN <<DigitChar(n)>>
    ELSE <<DigitChar(n \div 10), DigitChar(n % 10)>>

\* strings.TrimSpace
RECURSIVE TrimLeft(_)
TrimLeft(s) ==
    IF s # <<>> /\ Head(s) \in Spaces THEN TrimLeft(Tail(s)) ELSE s
RECURSIVE TrimRight(_)
TrimRight(s) ==
    IF s # <<>> /\ s[Len(s)] \in Spaces
    THEN TrimRight(SubSeq(s, 1, Len(s) - 1)) ELSE s
TrimSpace(s) == TrimRight(TrimLeft(s))

\* strconv.Atoi with the error dropped: 0 unless s is [+-]digits
RECURSIVE DigitsVal(_, _)
DigitsVal(s, acc) ==
    IF s = <<>> THEN acc ELSE DigitsVal(Tail(s), 10 * acc + DigitVal(Head(s)))
AllDigits(s) == s # <<>> /\ \A i \in 1..Len(s) : s[i] \in Digits
Atoi(s) ==
    IF AllDigits(s) THEN DigitsVal(s, 0)
    ELSE IF s # <<>> /\ Head(s) = "-" /\ AllDigits(Tail(s)) THEN 0 - DigitsVal(Tail(s), 0)
    ELSE IF s # <<>> /\ Head(s) = "+" /\ AllDigits(Tail(s)) THEN DigitsVal(Tail(s), 0)
    ELSE 0

\* SQLite LIKE folds the case of ASCII letters
Lower(c) ==
    CASE c = "A" -> "a" [] c = "B" -> "b" [] c = "T" -> "t" [] c = "Y" -> "y"
      [] c = "N" -> "n" [] OTHER -> c
LowerText(s) == [i \in 1..Len(s) |-> Lower(s[i])]

\* s LIKE p: in the pattern % matches any run of characters, _ any one
\* character, and every other character itself up to the case of ASCII letters
RECURSIVE LikeMatch(_, _)
LikeMatch(s, p) ==
    IF p = <<>> THEN s = <<>>
    ELSE IF Head(p) = "%"
    THEN \E i \in 0..Len(s) : LikeMatch(SubSeq(s, i + 1, Len(s)), Tail(p))
    ELSE /\ s # <<>>
         /\ Head(p) = "_" \/ Lower(Head(s)) = Lower(Head(p))
         /\ LikeMatch(Tail(s), Tail(p))

\* s LIKE '%' || sub || '%', sub being bound into the pattern as it is
Like(s, sub) == LikeMatch(s, <<"%">> \o sub \o <<"%">>)

---------------------------------------------------------------------------
(* The store: tables tasks, task_tags, comments and the seeded tags.       *)
(* db.tasks maps the id of every row of tasks to its columns, db.taskTags  *)
(* is the set of rows <<task_id, tag_id>> of task_tags, db.comments the    *)
(* rows of comments in insertion order.                                    *)

TagIds == {TagDesign, TagTodo, TagActive, TagComplete}

\* tags.tag_group_id of the seeded tags
TagGroupOf(tag) == StatusGroup

\* tags.name of the seeded tags
TagName(tag) ==
    CASE tag = TagDesign -> "design" [] tag = TagTodo -> "todo"
      [] tag = TagActive -> "active" [] tag = TagComplete -> "complete"

\* SELECT ... FROM tags ORDER BY name
ListTags == <<TagActive, TagComplete, TagDesign, TagTodo>>

\* SELECT ... FROM tags WHERE LOWER(name) = LOWER(?)
GetTagByName(name) ==
    IF \E t \in TagIds : TagName(t) = name
    THEN CHOOSE t \in TagIds : TagName(t) = name
    ELSE NoID

\* the elements of a set of integers in increasing order
RECURSIVE SortedSeq(_)
SortedSeq(S) ==
    IF S = {} THEN <<>>
    ELSE LET m == CHOOSE x \in S : \A y \in S : x <= y
         IN <<m>> \o SortedSeq(S \ {m})

TaskTagSet(d, taskID) == {t \in TagIds : <<taskID, t>> \in d.taskTags}

GetTaskTags(d, taskID) == SortedSeq(TaskTagSet(d, taskID))

\* a models.Task as the queries build it: the row plus its tags
TaskRow(d, id) ==
    [id |-> id,
     project |-> d.tasks[id].project,
     title |-> d.tasks[id].title,
     description |-> d.tasks[id].description,
     notes |-> d.tasks[id].notes,
     priority |-> d.tasks[id].priority,
     created |-> d.tasks[id].created,
     tags |-> GetTaskTags(d, id)]

GetTask(d, id) == TaskRow(d, id)

\* a comes before b under ORDER BY priority DESC, created_at DESC
Before(d, a, b) ==
    \/ d.tasks[a].priority > d.tasks[b].priority
    \/ /\ d.tasks[a].priority = d.tasks[b].priority
       /\ d.tasks[a].created > d.tasks[b].created
    \/ /\ d.tasks[a].priority = d.tasks[b].priority
       /\ d.tasks[a].created = d.tasks[b].created
       /\ a <= b

RECURSIVE OrderTasks(_, _)
OrderTasks(d, S) ==
    IF S = {} THEN <<>>
    ELSE LET m == CHOOSE x \in S : \A y \in S : Before(d, x, y)
         IN <<TaskRow(d, m)>> \o OrderTasks(d, S \ {m})

\* the filtered rows in rowid order, without the ORDER BY
ListTasksFilteredByRowid(d, projectID, search, tagID, excludeTagID) ==
    LET ids == SortedSeq({id \in DOMAIN d.tasks :
                   /\ d.tasks[id].project = projectID
                   /\ search # <<>> =>
                         \/ Like(d.tasks[id].title, search)
                         \/ Like(d.tasks[id].description, search)
                   /\ tagID # NoID => <<id, tagID>> \in d.taskTags
                   /\ excludeTagID # NoID => <<id, excludeTagID>> \notin d.taskTags})
    IN [i \in 1..Len(ids) |-> TaskRow(d, ids[i])]

ListTasksFiltered(d, projectID, search, tagID, excludeTagID) ==
    OrderTasks(d, {id \in DOMAIN d.tasks :
        /\ d.tasks[id].project = projectID
        /\ search # <<>> =>
              \/ Like(d.tasks[id].title, search)
              \/ Like(d.tasks[id].description, search)
        /\ tagID # NoID => <<id, tagID>> \in d.taskTags
        /\ excludeTagID # NoID => <<id, excludeTagID>> \notin d.taskTags})

CreateTask(d, projectID, title, description, priority) ==
    LET id == d.nextTask
        row == [project |-> projectID, title |-> title,
                description |-> description, notes |-> <<>>,
                priority |-> priority, created |-> d.clock]
    IN [d EXCEPT !.tasks = [i \in DOMAIN d.tasks \cup {id} |->
                               IF i = id THEN row ELSE d.tasks[i]],
                 !.nextTask = id + 1,
                 !.clock = d.clock + 1]

UpdateTask(d, id, title, description, notes, priority) ==
    IF id \in DOMAIN d.tasks
    THEN [d EXCEPT !.tasks[id].title = title,
                   !.tasks[id].description = description,
                   !.tasks[id].notes = notes,
                   !.tasks[id].priority = priority]
    ELSE d

\* DELETE FROM tasks; task_tags and comments go with it (ON DELETE CASCADE)
DeleteTask(d, id) ==
    [d EXCEPT !.tasks = [i \in DOMAIN d.tasks \ {id} |-> d.tasks[i]],
              !.taskTags = {p \in d.taskTags : p[1] # id},
              !.comments = SelectSeq(d.comments, LAMBDA c : c.task # id)]

\* an insert of the link that leaves the other tags of the group in place
AddTagToTaskNoExclusion(d, taskID, tagID) ==
    IF taskID \in DOMAIN d.tasks
    THEN [d EXCEPT !.taskTags = d.taskTags \cup {<<taskID, tagID>>}]
    ELSE d

\* removes the task's tags of the tag's group, then inserts the link
AddTagToTask(d, taskID, tagID) ==
    LET cleared == {p \in d.taskTags :
                       ~(p[1] = taskID /\ TagGroupOf(p[2]) = TagGroupOf(tagID))}
    IN IF taskID \in DOMAIN d.tasks
       THEN [d EXCEPT !.taskTags = cleared \cup {<<taskID, tagID>>}]
       ELSE [d EXCEPT !.taskTags = cleared]

RemoveTagFromTask(d, taskID, tagID) ==
    [d EXCEPT !.taskTags = d.taskTags \ {<<taskID, tagID>>}]

CreateComment(d, taskID, content) ==
    [d EXCEPT !.comments = Append(d.comments,
                  [id |-> d.nextComment, task |-> taskID, content |-> content]),
              !.nextComment = d.nextComment + 1]

\* SELECT ... FROM comments WHERE task_id = ? ORDER BY created_at ASC
GetTaskComments(d, taskID) == SelectSeq(d.comments, LAMBDA c : c.task = taskID)

\* the store when the program starts: InitTasks tasks of the open project
InitPriority(i) == IF i % 2 = 0 THEN 7 ELSE 3
InitTitle(i) == IF i % 2 = 0 THEN <<"B">> ELSE <<"a">>
InitTaskTags(i) ==
    IF i = 1 THEN {TagTodo} ELSE IF i = 3 THEN {TagComplete} ELSE {}

InitDB ==
    [tasks |-> [i \in 1..InitTasks |->
                   [project |-> ProjectID, title |-> InitTitle(i),
                    description |-> <<>>, notes |-> <<>>,
                    priority |-> InitPriority(i), created |-> i]],
     taskTags |-> {p \in (1..InitTasks) \X TagIds : p[2] \in InitTaskTags(p[1])},
     comments |-> <<>>,
     nextTask |-> InitTasks + 1,
     nextComment |-> 1,
     clock |-> InitTasks + 1]

---------------------------------------------------------------------------
(* Key bindings (keys.DefaultKeyMap) and the bubbles text widgets.         *)

KeyUp == {"up", "k"}
KeyDown == {"down", "j"}
KeyEnter == {"enter"}
KeyBack == {"esc"}
KeyQuit == {"q"}
KeyTab == {"tab"}
KeyEdit == {"e"}
KeyNew == {"n"}
KeyDelete == {"d"}
KeySearch == {"/"}
KeyFilter == {"f"}
KeyShowCompleted == {"c"}

\* keys that carry a rune (tea.KeyRunes, tea.KeySpace)
Runes == {"k", "j", "q", "e", "n", "d", "/", "f", "c", "t", "?", "a", "y",
          "Y", "N", "B", " ", "5", "-", "b", "_", "%"}

\* textinput.Model.Update on a key: a rune is appended unless the field is
\* full, backspace deletes the last character, other keys leave the value
TextInputUpdate(val, k, charLimit) ==
    IF k \in Runes
    THEN IF Len(val) < charLimit THEN Append(val, k) ELSE val
    ELSE IF k = "backspace" /\ val # <<>> THEN SubSeq(val, 1, Len(val) - 1)
    ELSE val

\* textarea.Model.Update on a key: as textinput, and enter inserts a newline
TextAreaUpdate(val, k, charLimit) ==
    IF k = "enter"
    THEN IF Len(val) < charLimit THEN Append(val, "\n") ELSE val
    ELSE TextInputUpdate(val, k, charLimit)

---------------------------------------------------------------------------
(* TaskListView.                                                           *)

NewTaskListView ==
    [tasks |-> <<>>, tags |-> <<>>, width |-> 0, height |-> 0,
     focus |-> FocusTaskList, cursor |-> 0, scrollY |-> 0,
     searchInput |-> <<>>, selectedTag |-> NoID,
     tagDropdownOpen |-> FALSE, tagCursor |-> 0,
     editing |-> FALSE, editingNew |-> FALSE,
     editTitle |-> <<>>, editDesc |-> <<>>, editNotes |-> <<>>,
     editPriority |-> <<>>, editFocusIdx |-> 0, editTags |-> <<>>,
     editTagCursor |-> 0,
     assigningTags |-> FALSE, assignTagCursor |-> 0, assigningTaskID |-> NoID,
     viewingTask |-> FALSE, viewTaskComments |-> <<>>,
     commentInput |-> <<>>, commentInputFocused |-> FALSE,
     confirmingDelete |-> FALSE, deleteTargetID |-> NoID,
     deleteTargetName |-> <<>>,
     showingCompleted |-> FALSE, preCompletedTag |-> NoID,
     completeTagID |-> NoID,
     showHelpPopup |-> FALSE,
     project |-> ProjectID]

\* NewTaskListView(database, project)
NewTaskListViewOf(project) == [NewTaskListView EXCEPT !.project = project]

\* what a handler hands back: the view and the store after it, the commands
\* it returns, the persistence calls it made, the signal it emits, whether
\* it panicked, and the length of the text field it typed a character into
\* (0 when it typed none)
Res(vv, dd, cs, calls, signal) ==
    [v |-> vv, db |-> dd, cmds |-> cs, calls |-> calls, signal |-> signal,
     panic |-> FALSE, typed |-> 0]

Stay(vv, dd) == Res(vv, dd, <<>>, <<>>, "none")

Panic(vv, dd) ==
    [v |-> vv, db |-> dd, cmds |-> <<>>, calls |-> <<>>, signal |-> "none",
     panic |-> TRUE, typed |-> 0]

\* a handler that passed the key to a text widget: old and new value
Typed(res, old, new) ==
    [res EXCEPT !.typed = IF Len(new) > Len(old) THEN Len(new) ELSE 0]

\* v.tasks[v.cursor] is in range
CursorInRange(vv) == vv.cursor >= 0 /\ vv.cursor < Len(vv.tasks)
\* v.tasks[v.cursor]
CursorTask(vv) == vv.tasks[vv.cursor + 1]

\* visibleItems of ensureVisible
EnsureVisibleItems(height) ==
    Max(1, Max(2, height - 10) \div 2)

\* visibleItems of renderTaskList
RenderVisibleItems(height) ==
    Max(1, Max(3, height - 12) \div 3)

ensureVisible(vv) ==
    LET visibleItems == EnsureVisibleItems(vv.height)
    IN IF vv.cursor < vv.scrollY THEN [vv EXCEPT !.scrollY = vv.cursor]
       ELSE IF vv.cursor >= vv.scrollY + visibleItems
            THEN [vv EXCEPT !.scrollY = vv.cursor - visibleItems + 1]
       ELSE vv

cycleFocus(vv, dir) == [vv EXCEPT !.focus = (vv.focus + dir + 4) % 4]

startNewTask(vv) ==
    [vv EXCEPT !.editing = TRUE, !.editingNew = TRUE, !.editFocusIdx = 0,
               !.editTagCursor = 0, !.editTags = <<>>,
               !.editTitle = <<>>, !.editDesc = <<>>, !.editNotes = <<>>,
               !.editPriority = <<"0">>]

startEditTask(vv, task) ==
    [vv EXCEPT !.editing = TRUE, !.editingNew = FALSE, !.editFocusIdx = 0,
               !.editTagCursor = 0, !.editTags = task.tags,
               !.editTitle = task.title, !.editDesc = task.description,
               !.editNotes = task.notes,
               !.editPriority = FormatInt(task.priority)]

toggleEditTag(vv) ==
    IF vv.editTagCursor >= Len(vv.tags) THEN vv
    ELSE LET tagID == vv.tags[vv.editTagCursor + 1]
             i == IndexFrom(vv.editTags, tagID, 1)
         IN IF i > 0 THEN [vv EXCEPT !.editTags = RemoveAt(vv.editTags, i)]
            ELSE [vv EXCEPT !.editTags = Append(vv.editTags, tagID)]

\* a toggle that forgets the stashed tag filter when it leaves the completed view
toggleShowCompletedNoRestore(vv) ==
    LET toggled ==
            IF vv.showingCompleted
            THEN [vv EXCEPT !.showingCompleted = FALSE,
                            !.selectedTag = NoID,
                            !.preCompletedTag = NoID]
            ELSE [vv EXCEPT !.preCompletedTag = vv.selectedTag,
                            !.showingCompleted = TRUE,
                            !.selectedTag = vv.completeTagID]
    IN [toggled EXCEPT !.cursor = 0, !.scrollY = 0]

\* updateNormal on the ShowCompleted key
toggleShowCompleted(vv) ==
    LET toggled ==
            IF vv.showingCompleted
            THEN [vv EXCEPT !.showingCompleted = FALSE,
                            !.selectedTag = vv.preCompletedTag,
                            !.preCompletedTag = NoID]
            ELSE [vv EXCEPT !.preCompletedTag = vv.selectedTag,
                            !.showingCompleted = TRUE,
                            !.selectedTag = vv.completeTagID]
    IN [toggled EXCEPT !.cursor = 0, !.scrollY = 0]

\* the handlers below take ok: whether the persistence calls of this step
\* succeed (a failing call returns an error and writes nothing)

\* a search input that lets the quit and the completed-view keys through
updateSearchInputHotkeys(vv, dd, k) ==
    IF k \in KeyQuit THEN Res(vv, dd, <<>>, <<>>, "quit")
    ELSE IF k \in KeyShowCompleted
    THEN Res(toggleShowCompleted(vv), dd, <<"loadTasks">>, <<>>, "none")
    ELSE IF k \in KeyBack THEN Stay([vv EXCEPT !.focus = FocusTaskList], dd)
    ELSE IF k \in KeyEnter
    THEN Res([vv EXCEPT !.focus = FocusTaskList], dd, <<"loadTasks">>, <<>>, "none")
    ELSE LET new == TextInputUpdate(vv.searchInput, k, SearchCharLimit)
         IN Typed(Res([vv EXCEPT !.searchInput = new], dd,
                      <<"loadTasks">>, <<>>, "none"),
                  vv.searchInput, new)

\* updateNormal while the search input has the focus
updateSearchInput(vv, dd, k) ==
    IF k \in KeyBack THEN Stay([vv EXCEPT !.focus = FocusTaskList], dd)
    ELSE IF k \in KeyEnter
    THEN Res([vv EXCEPT !.focus = FocusTaskList], dd, <<"loadTasks">>, <<>>, "none")
    ELSE LET new == TextInputUpdate(vv.searchInput, k, SearchCharLimit)
         IN Typed(Res([vv EXCEPT !.searchInput = new], dd,
                      <<"loadTasks">>, <<>>, "none"),
                  vv.searchInput, new)

updateNormal(vv, dd, k, ok) ==
    IF vv.focus = FocusSearchInput THEN updateSearchInput(vv, dd, k)
    ELSE IF k \in KeyQuit THEN Res(vv, dd, <<>>, <<>>, "quit")
    ELSE IF k \in KeyBack THEN Res(vv, dd, <<>>, <<>>, "back")
    ELSE IF k \in KeyTab THEN Stay(cycleFocus(vv, 1), dd)
    ELSE IF k = "shift+tab" THEN Stay(cycleFocus(vv, -1), dd)
    ELSE IF k \in KeyUp
    THEN IF vv.focus = FocusTaskList /\ vv.cursor > 0
         THEN Stay(ensureVisible([vv EXCEPT !.cursor = vv.cursor - 1]), dd)
         ELSE Stay(vv, dd)
    ELSE IF k \in KeyDown
    THEN IF vv.focus = FocusTaskList /\ vv.cursor < Len(vv.tasks) - 1
         THEN Stay(ensureVisible([vv EXCEPT !.cursor = vv.cursor + 1]), dd)
         ELSE Stay(vv, dd)
    ELSE IF k \in KeyEnter
    THEN IF vv.focus = FocusBackButton THEN Res(vv, dd, <<>>, <<>>, "back")
         ELSE IF vv.focus = FocusTagDropdown
         THEN Stay([vv EXCEPT !.tagDropdownOpen = TRUE, !.tagCursor = 0], dd)
         ELSE IF vv.focus = FocusTaskList /\ Len(vv.tasks) > 0
         THEN Res([vv EXCEPT !.viewingTask = TRUE], dd,
                  <<"loadTaskComments">>, <<>>, "none")
         ELSE Stay(vv, dd)
    ELSE IF k \in KeyEdit
    THEN IF vv.focus = FocusTaskList /\ Len(vv.tasks) > 0
         THEN IF CursorInRange(vv) THEN Stay(startEditTask(vv, CursorTask(vv)), dd)
              ELSE Panic(vv, dd)
         ELSE Stay(vv, dd)
    ELSE IF k \in KeyNew THEN Stay(startNewTask(vv), dd)
    ELSE IF k \in KeyDelete
    THEN IF vv.focus = FocusTaskList /\ Len(vv.tasks) > 0
         THEN IF CursorInRange(vv)
              THEN Stay([vv EXCEPT !.confirmingDelete = TRUE,
                                   !.deleteTargetID = CursorTask(vv).id,
                                   !.deleteTargetName = CursorTask(vv).title], dd)
              ELSE Panic(vv, dd)
         ELSE Stay(vv, dd)
    ELSE IF k \in KeySearch THEN Stay([vv EXCEPT !.focus = FocusSearchInput], dd)
    ELSE IF k \in KeyFilter
    THEN Stay([vv EXCEPT !.focus = FocusTagDropdown, !.tagDropdownOpen = TRUE,
                         !.tagCursor = 0], dd)
    ELSE IF k = "t"
    THEN IF vv.focus = FocusTaskList /\ Len(vv.tasks) > 0
         THEN IF CursorInRange(vv)
              THEN Stay([vv EXCEPT !.assigningTags = TRUE, !.assignTagCursor = 0,
                                   !.assigningTaskID = CursorTask(vv).id], dd)
              ELSE Panic(vv, dd)
         ELSE Stay(vv, dd)
    ELSE IF k = "?" THEN Stay([vv EXCEPT !.showHelpPopup = TRUE], dd)
    ELSE IF k \in KeyShowCompleted
    THEN Res(toggleShowCompleted(vv), dd, <<"loadTasks">>, <<>>, "none")
    ELSE Stay(vv, dd)

updateTagDropdown(vv, dd, k, ok) ==
    IF k \in KeyBack THEN Stay([vv EXCEPT !.tagDropdownOpen = FALSE], dd)
    ELSE IF k \in KeyUp
    THEN IF vv.tagCursor > 0 THEN Stay([vv EXCEPT !.tagCursor = vv.tagCursor - 1], dd)
         ELSE Stay(vv, dd)
    ELSE IF k \in KeyDown
    THEN IF vv.tagCursor < Len(vv.tags)
         THEN Stay([vv EXCEPT !.tagCursor = vv.tagCursor + 1], dd)
         ELSE Stay(vv, dd)
    ELSE IF k \in KeyEnter
    THEN IF vv.tagCursor = 0
         THEN Res([vv EXCEPT !.selectedTag = NoID, !.tagDropdownOpen = FALSE], dd,
                  <<"loadTasks">>, <<>>, "none")
         ELSE IF vv.tagCursor - 1 < Len(vv.tags)
         THEN Res([vv EXCEPT !.selectedTag = vv.tags[vv.tagCursor],
                             !.tagDropdownOpen = FALSE], dd,
                  <<"loadTasks">>, <<>>, "none")
         ELSE Panic(vv, dd)
    ELSE Stay(vv, dd)

\* a confirmation that resolves the task to delete from the cursor again
updateConfirmDeleteAtCursor(vv, dd, k, ok) ==
    IF k \in {"y", "Y"}
    THEN LET target == IF CursorInRange(vv) THEN CursorTask(vv).id ELSE NoID
         IN Res([vv EXCEPT !.confirmingDelete = FALSE],
                IF ok THEN DeleteTask(dd, target) ELSE dd,
                IF ok THEN <<"loadTasks">> ELSE <<>>,
                <<<<"DeleteTask", target>>>>, "none")
    ELSE IF k \in {"n", "N", "esc"}
    THEN Stay([vv EXCEPT !.confirmingDelete = FALSE], dd)
    ELSE Stay(vv, dd)

\* a confirmation that hands the keys it does not know to the list
updateConfirmDeletePassThrough(vv, dd, k, ok) ==
    IF k \in {"y", "Y"}
    THEN Res([vv EXCEPT !.confirmingDelete = FALSE],
             IF ok THEN DeleteTask(dd, vv.deleteTargetID) ELSE dd,
             IF ok THEN <<"loadTasks">> ELSE <<>>,
             <<<<"DeleteTask", vv.deleteTargetID>>>>, "none")
    ELSE IF k \in {"n", "N", "esc"}
    THEN Stay([vv EXCEPT !.confirmingDelete = FALSE], dd)
    ELSE updateNormal(vv, dd, k, ok)

\* a confirmation that stays open when DeleteTask fails
updateConfirmDeleteStaysOnError(vv, dd, k, ok) ==
    IF k \in {"y", "Y"}
    THEN IF ok
         THEN Res([vv EXCEPT !.confirmingDelete = FALSE],
                  DeleteTask(dd, vv.deleteTargetID),
                  <<"loadTasks">>, <<<<"DeleteTask", vv.deleteTargetID>>>>, "none")
         ELSE Res(vv, dd, <<>>, <<<<"DeleteTask", vv.deleteTargetID>>>>, "none")
    ELSE IF k \in {"n", "N", "esc"}
    THEN Stay([vv EXCEPT !.confirmingDelete = FALSE], dd)
    ELSE Stay(vv, dd)

updateConfirmDelete(vv, dd, k, ok) ==
    IF k \in {"y", "Y"}
    THEN IF ok
         THEN Res([vv EXCEPT !.confirmingDelete = FALSE],
                  DeleteTask(dd, vv.deleteTargetID),
                  <<"loadTasks">>, <<<<"DeleteTask", vv.deleteTargetID>>>>, "none")
         ELSE Res([vv EXCEPT !.confirmingDelete = FALSE], dd,
                  <<>>, <<<<"DeleteTask", vv.deleteTargetID>>>>, "none")
    ELSE IF k \in {"n", "N", "esc"}
    THEN Stay([vv EXCEPT !.confirmingDelete = FALSE], dd)
    ELSE Stay(vv, dd)

\* a submission that clears and leaves the input also when CreateComment fails
submitCommentClearsOnError(vv, dd, ok) ==
    LET content == TrimSpace(vv.commentInput)
    IN IF content = <<>> THEN Stay(vv, dd)
       ELSE IF Len(vv.tasks) = 0 \/ vv.cursor >= Len(vv.tasks) THEN Stay(vv, dd)
       ELSE LET taskID == CursorTask(vv).id
                call == <<<<"CreateComment", taskID>>>>
                cleared == [vv EXCEPT !.commentInput = <<>>,
                                      !.commentInputFocused = FALSE]
            IN IF ok /\ taskID \in DOMAIN dd.tasks
               THEN Res(cleared, CreateComment(dd, taskID, content),
                        <<"loadTaskComments">>, call, "none")
               ELSE Res(cleared, dd, <<>>, call, "none")

submitComment(vv, dd, ok) ==
    LET content == TrimSpace(vv.commentInput)
    IN IF content = <<>> THEN Stay(vv, dd)
       ELSE IF Len(vv.tasks) = 0 \/ vv.cursor >= Len(vv.tasks) THEN Stay(vv, dd)
       ELSE LET taskID == CursorTask(vv).id
                call == <<<<"CreateComment", taskID>>>>
            IN IF ok /\ taskID \in DOMAIN dd.tasks
               THEN Res([vv EXCEPT !.commentInput = <<>>,
                                   !.commentInputFocused = FALSE],
                        CreateComment(dd, taskID, content),
                        <<"loadTaskComments">>, call, "none")
               ELSE Res(vv, dd, <<>>, call, "none")

updateViewingTask(vv, dd, k, ok) ==
    IF vv.commentInputFocused
    THEN IF k \in KeyBack THEN Stay([vv EXCEPT !.commentInputFocused = FALSE], dd)
         ELSE IF k = "ctrl+s" THEN submitComment(vv, dd, ok)
         ELSE LET new == TextAreaUpdate(vv.commentInput, k, CommentCharLimit)
              IN Typed(Stay([vv EXCEPT !.commentInput = new], dd),
                       vv.commentInput, new)
    ELSE IF k \in KeyBack
    THEN Stay([vv EXCEPT !.viewingTask = FALSE, !.viewTaskComments = <<>>], dd)
    ELSE IF k \in KeyEdit
    THEN IF CursorInRange(vv)
         THEN Stay(startEditTask([vv EXCEPT !.viewingTask = FALSE,
                                            !.viewTaskComments = <<>>],
                                 CursorTask(vv)), dd)
         ELSE Panic(vv, dd)
    ELSE IF k \in KeyDelete
    THEN IF CursorInRange(vv)
         THEN Stay([vv EXCEPT !.confirmingDelete = TRUE,
                              !.deleteTargetID = CursorTask(vv).id,
                              !.deleteTargetName = CursorTask(vv).title], dd)
         ELSE Panic(vv, dd)
    ELSE IF k = "t"
    THEN IF CursorInRange(vv)
         THEN Stay([vv EXCEPT !.viewingTask = FALSE, !.viewTaskComments = <<>>,
                              !.assigningTags = TRUE, !.assignTagCursor = 0,
                              !.assigningTaskID = CursorTask(vv).id], dd)
         ELSE Panic(vv, dd)
    ELSE IF k \in {"c", "a"} THEN Stay([vv EXCEPT !.commentInputFocused = TRUE], dd)
    ELSE IF k \in KeyQuit THEN Res(vv, dd, <<>>, <<>>, "quit")
    ELSE Stay(vv, dd)

updateAssigningTags(vv, dd, k, ok) ==
    IF k \in KeyBack THEN Stay([vv EXCEPT !.assigningTags = FALSE], dd)
    ELSE IF k \in KeyUp
    THEN IF vv.assignTagCursor > 0
         THEN Stay([vv EXCEPT !.assignTagCursor = vv.assignTagCursor - 1], dd)
         ELSE Stay(vv, dd)
    ELSE IF k \in KeyDown
    THEN IF vv.assignTagCursor < Len(vv.tags) - 1
         THEN Stay([vv EXCEPT !.assignTagCursor = vv.assignTagCursor + 1], dd)
         ELSE Stay(vv, dd)
    ELSE IF k \in KeyEnter \/ k = " "
    THEN IF Len(vv.tasks) > 0 /\ vv.assignTagCursor < Len(vv.tags)
         THEN IF CursorInRange(vv)
              THEN LET task == CursorTask(vv)
                       tag == vv.tags[vv.assignTagCursor + 1]
                       hasTag == tag \in Range(task.tags)
                   IN IF hasTag
                      THEN Res(vv, IF ok THEN RemoveTagFromTask(dd, task.id, tag) ELSE dd,
                               <<"loadTasks">>,
                               <<<<"RemoveTagFromTask", task.id, tag>>>>, "none")
                      ELSE Res(vv, IF ok THEN AddTagToTask(dd, task.id, tag) ELSE dd,
                               <<"loadTasks">>,
                               <<<<"AddTagToTask", task.id, tag>>>>, "none")
              ELSE Panic(vv, dd)
         ELSE Stay(vv, dd)
    ELSE Stay(vv, dd)

\* the calls of saveTask's tag sync, in the order it makes them: the task's
\* tags that are not selected are removed, the selected ones it lacks added
SyncCalls(taskID, existing, selected) ==
    [i \in 1..Len(SelectSeq(existing, LAMBDA t : t \notin Range(selected))) |->
        <<"RemoveTagFromTask", taskID,
          SelectSeq(existing, LAMBDA t : t \notin Range(selected))[i]>>]
    \o
    [i \in 1..Len(SelectSeq(selected, LAMBDA t : t \notin Range(existing))) |->
        <<"AddTagToTask", taskID,
          SelectSeq(selected, LAMBDA t : t \notin Range(existing))[i]>>]

\* the store after a sequence of tag calls that insert links without clearing
\* the tag's group
RECURSIVE ApplyCallsNoExclusion(_, _)
ApplyCallsNoExclusion(d, calls) ==
    IF calls = <<>> THEN d
    ELSE LET c == Head(calls)
             d1 == IF c[1] = "AddTagToTask"
                   THEN AddTagToTaskNoExclusion(d, c[2], c[3])
                   ELSE RemoveTagFromTask(d, c[2], c[3])
         IN ApplyCallsNoExclusion(d1, Tail(calls))

\* the store after a sequence of tag calls
RECURSIVE ApplyCalls(_, _)
ApplyCalls(d, calls) ==
    IF calls = <<>> THEN d
    ELSE LET c == Head(calls)
             d1 == IF c[1] = "AddTagToTask" THEN AddTagToTask(d, c[2], c[3])
                   ELSE RemoveTagFromTask(d, c[2], c[3])
         IN ApplyCalls(d1, Tail(calls))

\* a priority taken from the field as it parses
parsePriorityUnclamped(text) == Atoi(text)

\* saveTask's priority: strconv.Atoi, its error dropped, then the two bounds
parsePriority(text) == clamp(Atoi(text), 0, 10)

\* saveTask once the title is known not to be empty
saveTaskPersist(vv, dd, ok) ==
    LET title == TrimSpace(vv.editTitle)
        desc == TrimSpace(vv.editDesc)
        notes == TrimSpace(vv.editNotes)
        priority == parsePriority(vv.editPriority)
        done == [vv EXCEPT !.editing = FALSE]
    IN IF vv.editingNew
       THEN IF ~ok
            THEN Res(done, dd, <<>>, <<<<"CreateTask", NoID>>>>, "none")
            ELSE LET taskID == dd.nextTask
                     d1 == CreateTask(dd, vv.project, title, desc, priority)
                     d2 == IF notes # <<>>
                           THEN UpdateTask(d1, taskID, title, desc, notes, priority)
                           ELSE d1
                     c2 == IF notes # <<>> THEN <<<<"UpdateTask", taskID>>>> ELSE <<>>
                     sync == SyncCalls(taskID, GetTaskTags(d2, taskID), vv.editTags)
                 IN Res(done, ApplyCalls(d2, sync), <<"loadTasks">>,
                        <<<<"CreateTask", taskID>>>> \o c2 \o sync, "none")
       ELSE IF Len(vv.tasks) > 0
       THEN IF ~CursorInRange(vv) THEN Panic(vv, dd)
            ELSE LET taskID == CursorTask(vv).id
                     d1 == IF ok
                           THEN UpdateTask(dd, taskID, title, desc, notes, priority)
                           ELSE dd
                     sync == IF ok /\ taskID \in DOMAIN d1.tasks
                             THEN SyncCalls(taskID, GetTaskTags(d1, taskID), vv.editTags)
                             ELSE <<>>
                 IN Res(done, ApplyCalls(d1, sync), <<"loadTasks">>,
                        <<<<"UpdateTask", taskID>>>> \o sync, "none")
       ELSE Res(done, dd, <<"loadTasks">>, <<>>, "none")

\* a save that persists a draft whatever its title
saveTaskNoTitleCheck(vv, dd, ok) == saveTaskPersist(vv, dd, ok)

\* a save that stays in the edit form and reloads when CreateTask fails
saveTaskCreateErrorStays(vv, dd, ok) ==
    IF TrimSpace(vv.editTitle) = <<>> THEN Stay([vv EXCEPT !.editing = FALSE], dd)
    ELSE IF vv.editingNew /\ ~ok
    THEN Res(vv, dd, <<"loadTasks">>, <<<<"CreateTask", NoID>>>>, "none")
    ELSE saveTaskPersist(vv, dd, ok)

saveTask(vv, dd, ok) ==
    IF TrimSpace(vv.editTitle) = <<>> THEN Stay([vv EXCEPT !.editing = FALSE], dd)
    ELSE saveTaskPersist(vv, dd, ok)

\* a cancel that saves the draft
cancelEditSaving(vv, dd) == saveTask(vv, dd, TRUE)

\* updateEditing on the Back key
cancelEdit(vv, dd) == Stay([vv EXCEPT !.editing = FALSE], dd)

\* a toggle in the edit form that writes the link through and reloads
stageEditTagWriteThrough(vv, dd) ==
    IF vv.editTagCursor >= Len(vv.tags) \/ ~CursorInRange(vv)
    THEN Stay(toggleEditTag(vv), dd)
    ELSE LET tag == vv.tags[vv.editTagCursor + 1]
             id == CursorTask(vv).id
         IN IF tag \in Range(vv.editTags)
            THEN Res(toggleEditTag(vv), RemoveTagFromTask(dd, id, tag),
                     <<"loadTasks">>, <<<<"RemoveTagFromTask", id, tag>>>>, "none")
            ELSE Res(toggleEditTag(vv), AddTagToTask(dd, id, tag),
                     <<"loadTasks">>, <<<<"AddTagToTask", id, tag>>>>, "none")

\* updateEditing on Enter or Space over the tag selector: the toggle changes
\* the draft only
stageEditTag(vv, dd) == Stay(toggleEditTag(vv), dd)

\* an Enter on the title or the priority field that submits the form
enterOnLineFieldSubmits(vv, dd, ok) == saveTask(vv, dd, ok)

\* updateEditing on Enter over the title or the priority field
enterOnLineField(vv, dd, ok) ==
    Stay([vv EXCEPT !.editFocusIdx = vv.editFocusIdx + 1], dd)

updateEditing(vv, dd, k, ok) ==
    LET field ==
            IF vv.editFocusIdx = 0
            THEN LET new == TextInputUpdate(vv.editTitle, k, TitleCharLimit)
                 IN Typed(Stay([vv EXCEPT !.editTitle = new], dd), vv.editTitle, new)
            ELSE IF vv.editFocusIdx = 1
            THEN LET new == TextAreaUpdate(vv.editDesc, k, DescCharLimit)
                 IN Typed(Stay([vv EXCEPT !.editDesc = new], dd), vv.editDesc, new)
            ELSE IF vv.editFocusIdx = 2
            THEN LET new == TextAreaUpdate(vv.editNotes, k, NotesCharLimit)
                 IN Typed(Stay([vv EXCEPT !.editNotes = new], dd), vv.editNotes, new)
            ELSE IF vv.editFocusIdx = 3
            THEN LET new == TextInputUpdate(vv.editPriority, k, PriorityCharLimit)
                 IN Typed(Stay([vv EXCEPT !.editPriority = new], dd),
                          vv.editPriority, new)
            ELSE Stay(vv, dd)
    IN IF k \in KeyBack THEN cancelEdit(vv, dd)
       ELSE IF k = "ctrl+s" THEN saveTask(vv, dd, ok)
       ELSE IF k \in KeyTab
       THEN Stay([vv EXCEPT !.editFocusIdx = (vv.editFocusIdx + 1) % 6], dd)
       ELSE IF k = "shift+tab"
       THEN Stay([vv EXCEPT !.editFocusIdx = (vv.editFocusIdx + 5) % 6], dd)
       ELSE IF k \in KeyEnter
       THEN IF vv.editFocusIdx = 0 \/ vv.editFocusIdx = 3
            THEN enterOnLineField(vv, dd, ok)
            ELSE IF vv.editFocusIdx = 4 THEN stageEditTag(vv, dd)
            ELSE IF vv.editFocusIdx = 5 THEN saveTask(vv, dd, ok)
            ELSE field
       ELSE IF k = " " /\ vv.editFocusIdx = 4 THEN stageEditTag(vv, dd)
       ELSE IF k \in KeyUp /\ vv.editFocusIdx = 4 /\ vv.editTagCursor > 0
       THEN Stay([vv EXCEPT !.editTagCursor = vv.editTagCursor - 1], dd)
       ELSE IF k \in KeyDown /\ vv.editFocusIdx = 4
               /\ vv.editTagCursor < Len(vv.tags) - 1
       THEN Stay([vv EXCEPT !.editTagCursor = vv.editTagCursor + 1], dd)
       ELSE field

\* a reload that replaces the list and leaves the cursor where it was
applyTasksLoadedNoClamp(vv, tasks) ==
    LET v1 == [vv EXCEPT !.tasks = tasks]
    IN IF v1.assigningTags /\ v1.assigningTaskID # NoID
          /\ ~\E i \in 1..Len(tasks) : tasks[i].id = v1.assigningTaskID
       THEN [v1 EXCEPT !.assigningTags = FALSE, !.assigningTaskID = NoID]
       ELSE v1

\* a reload whose result is dropped when a dialog or a form is open
applyTasksLoadedOnlyInList(vv, tasks) ==
    IF vv.editing \/ vv.viewingTask \/ vv.confirmingDelete \/ vv.tagDropdownOpen
       \/ vv.showHelpPopup
    THEN vv
    ELSE LET v1 == [vv EXCEPT !.tasks = tasks]
             v2 == IF v1.cursor >= Len(tasks)
                   THEN [v1 EXCEPT !.cursor = Max(0, Len(tasks) - 1)]
                   ELSE v1
         IN IF v2.assigningTags /\ v2.assigningTaskID # NoID
               /\ ~\E i \in 1..Len(tasks) : tasks[i].id = v2.assigningTaskID
            THEN [v2 EXCEPT !.assigningTags = FALSE, !.assigningTaskID = NoID]
            ELSE v2

\* a reload that leaves the tag-assignment session alone
applyTasksLoadedNoReconcile(vv, tasks) ==
    LET v1 == [vv EXCEPT !.tasks = tasks]
    IN IF v1.cursor >= Len(tasks)
       THEN [v1 EXCEPT !.cursor = Max(0, Len(tasks) - 1)]
       ELSE v1

\* Update on a tasksLoadedMsg
applyTasksLoaded(vv, tasks) ==
    LET v1 == [vv EXCEPT !.tasks = tasks]
        v2 == IF v1.cursor >= Len(tasks)
              THEN [v1 EXCEPT !.cursor = Max(0, Len(tasks) - 1)]
              ELSE v1
    IN IF v2.assigningTags /\ v2.assigningTaskID # NoID
          /\ ~\E i \in 1..Len(tasks) : tasks[i].id = v2.assigningTaskID
       THEN [v2 EXCEPT !.assigningTags = FALSE, !.assigningTaskID = NoID]
       ELSE v2

\* a resize that brings the cursor back into the window at once
applyWindowSizeScrolling(vv, width, height) ==
    ensureVisible([vv EXCEPT !.width = width, !.height = height])

\* Update on a tea.WindowSizeMsg; the widths of the text areas it sets are
\* not part of the view record
applyWindowSize(vv, width, height) ==
    [vv EXCEPT !.width = width, !.height = height]

\* a dispatcher whose help overlay closes and then handles the key
updateKeyHelpPassThrough(vv, dd, k, ok) ==
    LET v0 == [vv EXCEPT !.showHelpPopup = FALSE]
    IN IF v0.confirmingDelete THEN updateConfirmDelete(v0, dd, k, ok)
       ELSE IF v0.editing THEN updateEditing(v0, dd, k, ok)
       ELSE IF v0.viewingTask THEN updateViewingTask(v0, dd, k, ok)
       ELSE IF v0.assigningTags THEN updateAssigningTags(v0, dd, k, ok)
       ELSE IF v0.tagDropdownOpen THEN updateTagDropdown(v0, dd, k, ok)
       ELSE updateNormal(v0, dd, k, ok)

\* Update on a tea.KeyMsg
updateKey(vv, dd, k, ok) ==
    IF vv.showHelpPopup THEN Stay([vv EXCEPT !.showHelpPopup = FALSE], dd)
    ELSE IF vv.confirmingDelete THEN updateConfirmDelete(vv, dd, k, ok)
    ELSE IF vv.editing THEN updateEditing(vv, dd, k, ok)
    ELSE IF vv.viewingTask THEN updateViewingTask(vv, dd, k, ok)
    ELSE IF vv.assigningTags THEN updateAssigningTags(vv, dd, k, ok)
    ELSE IF vv.tagDropdownOpen THEN updateTagDropdown(vv, dd, k, ok)
    ELSE updateNormal(vv, dd, k, ok)

\* an Update that answers an error value with a new reload
updateOtherRetries(vv, dd) == Res(vv, dd, <<"loadTasks">>, <<>>, "none")

\* Update on a message of no case of its type switch, an error value among
\* them: return v, nil
updateOther(vv, dd) == Stay(vv, dd)

\* TaskListView.Update; an error value or any other message changes nothing
Update(vv, dd, msg, ok) ==
    IF msg.type = "WindowSizeMsg"
    THEN Stay(applyWindowSize(vv, msg.width, msg.height), dd)
    ELSE IF msg.type = "tasksLoadedMsg" THEN Stay(applyTasksLoaded(vv, msg.tasks), dd)
    ELSE IF msg.type = "tagsLoadedMsg" THEN Stay([vv EXCEPT !.tags = msg.tags], dd)
    ELSE IF msg.type = "commentsLoadedMsg"
    THEN Stay([vv EXCEPT !.viewTaskComments = msg.comments], dd)
    ELSE IF msg.type = "KeyMsg" THEN updateKey(vv, dd, msg.key, ok)
    ELSE updateOther(vv, dd)

---------------------------------------------------------------------------
(* The commands, run off the event loop.  Each yields the view after it    *)
(* (loadTasks caches completeTagID) and the messages it sends: one, or     *)
(* none when it returns nil.                                               *)

ErrMsg == [type |-> "error"]

loadTasks(vv, dd, ok) ==
    LET v1 == IF vv.completeTagID = NoID /\ ok /\ GetTagByName("complete") # NoID
              THEN [vv EXCEPT !.completeTagID = GetTagByName("complete")]
              ELSE vv
        search == TrimSpace(v1.searchInput)
        excludeTagID == IF ~v1.showingCompleted /\ v1.completeTagID # NoID
                        THEN v1.completeTagID ELSE NoID
    IN [v |-> v1,
        msgs |-> IF ok
                 THEN {[type |-> "tasksLoadedMsg",
                        tasks |-> ListTasksFiltered(dd, v1.project, search,
                                                    v1.selectedTag, excludeTagID)]}
                 ELSE {ErrMsg}]

loadTags(vv, dd, ok) ==
    [v |-> vv,
     msgs |-> IF ok THEN {[type |-> "tagsLoadedMsg", tags |-> ListTags]}
              ELSE {ErrMsg}]

loadTaskComments(vv, dd, ok) ==
    [v |-> vv,
     msgs |-> IF Len(vv.tasks) = 0 \/ vv.cursor >= Len(vv.tasks) THEN {}
              ELSE IF ~ok THEN {}
              ELSE {[type |-> "commentsLoadedMsg",
                     comments |-> GetTaskComments(dd, CursorTask(vv).id)]}]

RunCmd(c, vv, dd, ok) ==
    IF c = "loadTasks" THEN loadTasks(vv, dd, ok)
    ELSE IF c = "loadTags" THEN loadTags(vv, dd, ok)
    ELSE loadTaskComments(vv, dd, ok)

---------------------------------------------------------------------------
(* The session: one TaskListView from openProject to quit or back.         *)

\* every key the model knows
AllKeys == Runes \cup {"up", "down", "enter", "esc", "tab", "shift+tab",
                       "ctrl+s", "backspace"}

\* the keys the user presses in the list, detail, tag and dialog modes
Keys == {"up", "down", "enter", "esc", "d", "y", "t", "c", "f", "?", " "}

\* terminal sizes <<width, height>> the window takes
WindowSizes == {<<80, 12>>, <<80, 14>>}

KeyMsg(k) == [type |-> "KeyMsg", key |-> k]

RECURSIVE SeqToBag(_)
SeqToBag(s) == IF s = <<>> THEN EmptyBag ELSE SetToBag({Head(s)}) (+) SeqToBag(Tail(s))

InFlight == BagCardinality(cmds) + BagCardinality(msgs)

\* the draft of the edit form
Draft(vv) ==
    [title |-> vv.editTitle, desc |-> vv.editDesc, notes |-> vv.editNotes,
     priority |-> vv.editPriority, tags |-> vv.editTags]

\* the rows of tasks and task_tags
Persisted(dd) == [tasks |-> dd.tasks, taskTags |-> dd.taskTags]

\* what the session remembers for the properties: the task under the cursor
\* when delete was requested, the tag filter when the completed view was
\* entered, the view when the help overlay was opened, the draft and the
\* persisted rows when the edit form was opened, the task it was opened for
\* (none for a new task), what the most recent key
\* event did, and what the reload results applied since that key did
NoHist ==
    [deleteRequested |-> NoID, tagBeforeCompleted |-> NoID,
     beforeHelp |-> NewTaskListView, lastKey |-> "none",
     editOpened |-> Draft(NewTaskListView), editDb |-> Persisted(InitDB),
     editTarget |-> NoID, lastLoad |-> "none"]

\* the tags of the task that share the group of tag, tag itself left out
GroupSiblings(dd, taskID, tag) ==
    {t \in TaskTagSet(dd, taskID) \ {tag} : TagGroupOf(t) = TagGroupOf(tag)}

KeyClass(vv, dd, r, k) ==
    IF vv.showHelpPopup THEN "help-closed"
    ELSE IF vv.confirmingDelete
    THEN IF r.v.confirmingDelete THEN "confirm-ignored"
         ELSE IF k \in {"y", "Y"}
         THEN IF r.cmds = <<>> THEN "delete-failed" ELSE "delete-confirmed"
         ELSE "delete-cancelled"
    ELSE IF vv.editing /\ ~r.v.editing
    THEN IF k \in KeyBack THEN "edit-cancelled"
         ELSE IF r.cmds # <<>> THEN "edit-saved"
         ELSE IF r.calls = <<>> THEN "edit-discarded"
         ELSE "create-failed"
    ELSE IF vv.viewingTask /\ vv.commentInputFocused /\ k = "ctrl+s"
    THEN IF r.cmds # <<>> THEN "comment-added"
         ELSE IF r.calls # <<>> THEN "comment-failed"
         ELSE "comment-empty"
    ELSE IF ~vv.showingCompleted /\ r.v.showingCompleted THEN "completed-on"
    ELSE IF vv.showingCompleted /\ ~r.v.showingCompleted THEN "completed-off"
    ELSE IF vv.assigningTags /\ r.calls # <<>> /\ r.db # dd
    THEN IF r.calls[1][1] = "AddTagToTask"
            /\ GroupSiblings(dd, r.calls[1][2], r.calls[1][3]) # {}
         THEN "tag-replaced"
         ELSE "tag-toggled"
    ELSE "other"

NextHist(h, vv, dd, r, k) ==
    [deleteRequested |->
        IF ~vv.confirmingDelete /\ r.v.confirmingDelete /\ CursorInRange(vv)
        THEN CursorTask(vv).id ELSE h.deleteRequested,
     tagBeforeCompleted |->
        IF ~vv.showingCompleted /\ r.v.showingCompleted
        THEN vv.selectedTag ELSE h.tagBeforeCompleted,
     beforeHelp |->
        IF ~vv.showHelpPopup /\ r.v.showHelpPopup THEN vv
        ELSE IF r.v.showHelpPopup THEN h.beforeHelp
        ELSE NewTaskListView,
     lastKey |-> KeyClass(vv, dd, r, k),
     editOpened |->
        IF ~vv.editing /\ r.v.editing THEN Draft(r.v) ELSE h.editOpened,
     editDb |->
        IF ~vv.editing /\ r.v.editing THEN Persisted(dd) ELSE h.editDb,
     editTarget |->
        IF ~vv.editing /\ r.v.editing
        THEN IF ~r.v.editingNew /\ CursorInRange(vv) THEN CursorTask(vv).id ELSE NoID
        ELSE h.editTarget,
     lastLoad |-> "none"]

\* what applying a reload result did to the view
LoadClass(vv, r) ==
    IF vv.assigningTags /\ ~r.v.assigningTags THEN "closed"
    ELSE IF r.v.cursor # vv.cursor THEN "clamped"
    ELSE "kept"

Init ==
    /\ v = NewTaskListView
    /\ db = InitDB
    /\ cmds = SetToBag({"loadTasks", "loadTags"})
    /\ msgs = EmptyBag
    /\ alive = "running"
    /\ hist = NoHist
    /\ nkeys = 0

\* the user presses a key of K; the persistence calls of the handler succeed
\* or fail as oks allows; the session is at most maxKeys keys long and a text
\* field takes at most maxText characters
KeyInBounded(K, oks, maxKeys, maxText) ==
    /\ alive = "running"
    /\ nkeys < maxKeys
    /\ \E k \in K, ok \in oks :
          LET r == Update(v, db, KeyMsg(k), ok)
          IN /\ ok \/ r.calls # <<>>
             /\ r.typed <= maxText
             /\ InFlight + Len(r.cmds) <= MaxInFlight
             /\ v' = r.v
             /\ db' = r.db
             /\ cmds' = cmds (+) SeqToBag(r.cmds)
             /\ alive' = IF r.panic THEN "panicked"
                         ELSE IF r.signal = "none" THEN "running" ELSE r.signal
             /\ hist' = NextHist(hist, v, db, r, k)
    /\ nkeys' = nkeys + 1
    /\ UNCHANGED msgs

KeyIn(K, oks) == KeyInBounded(K, oks, MaxKeys, MaxText)

\* the terminal is resized
Resize ==
    /\ alive = "running"
    /\ \E size \in WindowSizes :
          LET r == Update(v, db, [type |-> "WindowSizeMsg", width |-> size[1],
                                  height |-> size[2]], TRUE)
          IN /\ <<v.width, v.height>> # size
             /\ v' = r.v
    /\ UNCHANGED <<db, cmds, msgs, alive, hist, nkeys>>

\* a pending command runs
ExecIn(oks) ==
    /\ alive = "running"
    /\ \E c \in BagToSet(cmds), ok \in oks :
          LET r == RunCmd(c, v, db, ok)
          IN /\ v' = r.v
             /\ cmds' = cmds (-) SetToBag({c})
             /\ msgs' = msgs (+) SetToBag(r.msgs)
    /\ UNCHANGED <<db, alive, hist, nkeys>>

\* the result of a command reaches Update
Deliver ==
    /\ alive = "running"
    /\ \E m \in BagToSet(msgs) :
          LET r == Update(v, db, m, TRUE)
          IN /\ v' = r.v
             /\ msgs' = msgs (-) SetToBag({m})
             /\ hist' = IF m.type = "tasksLoadedMsg"
                        THEN [hist EXCEPT !.lastLoad = LoadClass(v, r)]
                        ELSE IF m.type = "error"
                        THEN [hist EXCEPT !.lastLoad = "failed"]
                        ELSE hist
    /\ UNCHANGED <<db, cmds, alive, nkeys>>

Key == KeyIn(Keys, {TRUE})
ExecCmd == ExecIn({TRUE})

Next == Key \/ Resize \/ ExecCmd \/ Deliver

Spec == Init /\ [][Next]_vars

\* the keys the user presses to open, fill, save and cancel the edit form
EditKeys == {"n", "e", "esc", "tab", "shift+tab", "ctrl+s", "enter", " ",
             "backspace", "down"}

\* a key of the edit session; CreateTask and the other calls may fail
EditKey == KeyIn(EditKeys, BOOLEAN)

NextEdit == EditKey \/ ExecCmd \/ Deliver

SpecEdit == Init /\ [][NextEdit]_vars

\* the keys the user presses to delete and to tag tasks
WriteKeys == {"down", "enter", "esc", "d", "y", "n", "t", " ", "c"}

\* a key whose persistence calls may fail
WriteKey == KeyIn(WriteKeys, BOOLEAN)

\* a pending command runs; its query may fail
ExecMayFail == ExecIn(BOOLEAN)

NextFail == WriteKey \/ ExecMayFail \/ Deliver

SpecFail == Init /\ [][NextFail]_vars

\* the keys the user presses to read and to write the comments of a task
CommentKeys == {"enter", "c", "a", " ", "ctrl+s", "esc", "down", "e", "t",
                "d", "y"}

\* a key of the comment session; CreateComment may fail
CommentKey == KeyIn(CommentKeys, BOOLEAN)

NextComment == CommentKey \/ ExecMayFail \/ Deliver

SpecComment == Init /\ [][NextComment]_vars

\* the keys the user presses to toggle tags, in the edit form and in the
\* tag assignment
TagKeys == {"e", "t", "shift+tab", "enter", " ", "down", "esc", "ctrl+s"}

\* a key of the tag session; the persistence calls may fail
TagKey == KeyIn(TagKeys, BOOLEAN)

NextTags == TagKey \/ ExecCmd \/ Deliver

SpecTags == Init /\ [][NextTags]_vars

\* key events in a session that edits the priority of a task
MaxPriorityKeys == 8

\* the keys the user presses to rewrite the priority of a task and save it
PriorityKeys == {"e", "shift+tab", "backspace", "5", "-", "ctrl+s"}

\* a key of the priority session; the priority field takes the two
\* characters its CharLimit allows
PriorityKey == KeyInBounded(PriorityKeys, {TRUE}, MaxPriorityKeys, PriorityCharLimit)

NextPriority == PriorityKey \/ ExecCmd \/ Deliver

SpecPriority == Init /\ [][NextPriority]_vars

\* key events in a session that stages several tags in a draft and saves it
MaxGroupKeys == 8

\* the keys the user presses to tag a new or an existing task in the edit
\* form or in the tag-assignment dialog
GroupKeys == {"n", "e", "t", "shift+tab", " ", "down", "ctrl+s"}

GroupKey == KeyInBounded(GroupKeys, BOOLEAN, MaxGroupKeys, MaxText)

NextGroup == GroupKey \/ ExecCmd \/ Deliver

SpecGroup == Init /\ [][NextGroup]_vars

\* the projects of the store
MaxProjects == 2

Projects == 1..MaxProjects

\* the keys the user presses to browse a project and to leave it
ProjectKeys == {"esc", "c", "down", "enter"}

ProjectKey == KeyIn(ProjectKeys, {TRUE})

\* App.Update while the project list is shown: a result of a command of the
\* task list that was left goes to the project list, which has no case for it
DeliverToProjectList ==
    /\ alive = "back"
    /\ \E m \in BagToSet(msgs) : msgs' = msgs (-) SetToBag({m})
    /\ UNCHANGED <<v, db, cmds, alive, hist, nkeys>>

\* a command of the task list that was left runs while the project list is
\* shown; it reads the view it was issued by
ExecDetached ==
    /\ alive = "back"
    /\ \E c \in BagToSet(cmds) :
          LET r == RunCmd(c, v, db, TRUE)
          IN /\ v' = r.v
             /\ cmds' = cmds (-) SetToBag({c})
             /\ msgs' = msgs (+) SetToBag(r.msgs)
    /\ UNCHANGED <<db, alive, hist, nkeys>>

\* App.Update on SelectedProject: openProject replaces the task list with a
\* new view of the project and batches its Init with a WindowSizeMsg. The
\* commands of the view that was left have all run; their results may still
\* be on their way
openProject ==
    /\ alive = "back"
    /\ cmds = EmptyBag
    /\ \E project \in Projects :
          /\ v' = NewTaskListViewOf(project)
          /\ msgs' = msgs (+) SetToBag({[type |-> "WindowSizeMsg",
                                         width |-> v.width, height |-> v.height]})
    /\ cmds' = SetToBag({"loadTasks", "loadTags"})
    /\ alive' = "running"
    /\ hist' = NoHist
    /\ UNCHANGED <<db, nkeys>>

NextProjects ==
    ProjectKey \/ ExecCmd \/ Deliver \/ DeliverToProjectList \/ ExecDetached
    \/ openProject

SpecProjects == Init /\ [][NextProjects]_vars

\* the keys the user presses to search and to filter the list
SearchKeys == {"/", "a", "b", "_", "%", " ", "backspace", "enter", "esc",
               "f", "down", "c", "tab"}

SearchKey == KeyIn(SearchKeys, {TRUE})

NextSearch == SearchKey \/ ExecCmd \/ Deliver

SpecSearch == Init /\ [][NextSearch]_vars

---------------------------------------------------------------------------
(* Properties.                                                             *)

Running == alive = "running"

\* the mode flags that are set
ModeFlags(vv) ==
    {f \in {"tagDropdownOpen", "editing", "viewingTask", "assigningTags",
            "confirmingDelete", "showHelpPopup"} : vv[f]}

InNormal(vv) == ModeFlags(vv) = {}

TaskIDs(tasks) == {tasks[i].id : i \in 1..Len(tasks)}

\* the fields of the view that a result message, a resize or a running
\* command writes
MsgWritten ==
    {"tasks", "cursor", "assigningTags", "assigningTaskID", "tags",
     "viewTaskComments", "width", "height", "completeTagID"}

\* C1: in every state of the task-list view, scroll <= cursor <
\* scroll + visibleCount, visibleCount being derived from the current height
C1_WindowInvariant ==
    Running =>
        /\ v.scrollY <= v.cursor
        /\ v.cursor < v.scrollY + EnsureVisibleItems(v.height)

\* C2: 0 <= scrollY <= cursor < len(tasks) when the cached list is not
\* empty, cursor = scrollY = 0 when it is
C2_CursorScrollInRange ==
    Running =>
        IF Len(v.tasks) > 0
        THEN 0 <= v.scrollY /\ v.scrollY <= v.cursor /\ v.cursor < Len(v.tasks)
        ELSE v.cursor = 0 /\ v.scrollY = 0

\* C3: at most one of the mode flags is set
C3_ModesExclusive == Cardinality(ModeFlags(v)) <= 1

\* C4: while tags are being assigned, assigningTaskID is the id of a task of
\* the cached list (a reload that lacks it closes the session in that step)
C4_AssignTargetInList ==
    /\ v.assigningTags => v.assigningTaskID \in TaskIDs(v.tasks)
    /\ (Running /\ v.assigningTags) =>
          \A m \in BagToSet(msgs) :
              m.type = "tasksLoadedMsg" =>
                  LET r == Update(v, db, m, TRUE)
                  IN /\ ~r.panic
                     /\ r.v.assigningTags <=>
                            v.assigningTaskID \in TaskIDs(m.tasks)

\* C4 witness: a reload that lacked the task has closed the session (only
\* the reload resets assigningTaskID), after the tag cursor was moved
C4_Witness ==
    /\ Running
    /\ ~v.assigningTags
    /\ v.assigningTaskID = NoID
    /\ v.assignTagCursor > 0

\* C5: the task the affirmative key deletes is the one that was under the
\* cursor when delete was requested, whatever reloads were applied since
C5_DeleteTargetCaptured ==
    (Running /\ v.confirmingDelete /\ ~v.showHelpPopup) =>
        \A k \in {"y", "Y"} :
            LET r == Update(v, db, KeyMsg(k), TRUE)
            IN /\ r.calls = <<<<"DeleteTask", hist.deleteRequested>>>>
               /\ DOMAIN r.db.tasks = DOMAIN db.tasks \ {hist.deleteRequested}

\* C5 witness: delete is being confirmed and a reload has since put another
\* task (or none) under the cursor
C5_Witness ==
    /\ Running
    /\ v.confirmingDelete
    /\ hist.deleteRequested \in DOMAIN db.tasks
    /\ ~CursorInRange(v) \/ CursorTask(v).id # hist.deleteRequested

\* C6: from ConfirmingDelete the affirmative key (DeleteTask succeeding)
\* issues a reload and leaves the view in Normal mode, the negative key
\* leaves it in Normal mode without a persistence call or a reload
C6_ConfirmDeleteEndsInNormal ==
    (Running /\ v.confirmingDelete /\ ~v.showHelpPopup) =>
        /\ \A k \in {"y", "Y"} :
              LET r == Update(v, db, KeyMsg(k), TRUE)
              IN r.cmds = <<"loadTasks">> /\ InNormal(r.v)
        /\ \A k \in {"n", "N", "esc"} :
              LET r == Update(v, db, KeyMsg(k), TRUE)
              IN /\ r.cmds = <<>> /\ r.calls = <<>> /\ r.db = db
                 /\ InNormal(r.v)

\* C7: while delete is being confirmed every key but y, Y, n, N and esc
\* changes nothing: same view, same store, no command, no signal
C7_ConfirmDeleteIgnoresOtherKeys ==
    (Running /\ v.confirmingDelete /\ ~v.showHelpPopup) =>
        \A k \in AllKeys \ {"y", "Y", "n", "N", "esc"}, ok \in BOOLEAN :
            Update(v, db, KeyMsg(k), ok) = Stay(v, db)

\* C7 witness: the last key was pressed during the confirmation and left
\* it open
C7_Witness ==
    Running /\ v.confirmingDelete /\ hist.lastKey = "confirm-ignored"

\* C8: while the help overlay is shown any key only closes it; nothing the
\* keys write has changed since it was opened, and the view is back in
\* Normal mode afterwards
C8_HelpOverlayOnlyCloses ==
    /\ (Running /\ v.showHelpPopup) =>
          /\ \A k \in AllKeys, ok \in BOOLEAN :
                Update(v, db, KeyMsg(k), ok) =
                    Stay([v EXCEPT !.showHelpPopup = FALSE], db)
          /\ \A f \in DOMAIN v \ (MsgWritten \cup {"showHelpPopup"}) :
                v[f] = hist.beforeHelp[f]
    /\ hist.lastKey = "help-closed" => InNormal(v)

\* C8 witness: the last key closed the help overlay
C8_Witness ==
    Running /\ hist.lastKey = "help-closed" /\ ~v.showHelpPopup

\* C9: leaving the completed view restores the tag filter that was selected
\* when it was entered; each toggle flips showingCompleted, resets cursor
\* and scroll and issues a reload
C9_ToggleCompletedRestoresFilter ==
    /\ hist.lastKey = "completed-off" =>
          v.selectedTag = hist.tagBeforeCompleted /\ ~v.showingCompleted
    /\ (Running /\ InNormal(v) /\ v.focus # FocusSearchInput) =>
          LET r == Update(v, db, KeyMsg("c"), TRUE)
          IN /\ r.cmds = <<"loadTasks">>
             /\ r.v.cursor = 0 /\ r.v.scrollY = 0
             /\ r.v.showingCompleted = ~v.showingCompleted

\* C9 witness: the completed view was entered with a tag filter set and
\* has just been left
C9_Witness ==
    /\ Running
    /\ hist.lastKey = "completed-off"
    /\ hist.tagBeforeCompleted # NoID

\* the list a reload run now would deliver
FreshTasks == CHOOSE t \in {m.tasks : m \in loadTasks(v, db, TRUE).msgs} : TRUE

\* C10: once every reload has been applied and the cached list is up to
\* date, its tasks bear the complete tag exactly when showingCompleted
C10_CompleteOnlyInCompletedView ==
    (Running /\ InFlight = 0 /\ v.completeTagID # NoID /\ v.tasks = FreshTasks) =>
        \A i \in 1..Len(v.tasks) :
            (TagComplete \in Range(v.tasks[i].tags)) <=> v.showingCompleted


\* the keys that save the draft: ctrl+s, and enter on the save button
SaveKeys(vv) == {"ctrl+s"} \cup (IF vv.editFocusIdx = 5 THEN {"enter"} ELSE {})

\* C11: saving a draft whose title is empty after trimming makes no
\* persistence call, leaves the store unchanged, issues no reload and
\* returns the view to the list
C11_EmptyTitleDiscards ==
    /\ (Running /\ v.editing /\ TrimSpace(v.editTitle) = <<>>) =>
          \A k \in SaveKeys(v), ok \in BOOLEAN :
              LET r == Update(v, db, KeyMsg(k), ok)
              IN /\ r.calls = <<>> /\ r.db = db /\ r.cmds = <<>>
                 /\ ~r.panic /\ r.signal = "none"
                 /\ InNormal(r.v)
    /\ hist.lastKey = "edit-discarded" =>
          /\ Persisted(db) = hist.editDb
          /\ TrimSpace(v.editTitle) = <<>>

\* C11 witness: a draft whose title was only white space has just been
\* discarded by a save
C11_Witness ==
    /\ Running
    /\ hist.lastKey = "edit-discarded"
    /\ v.editTitle # <<>>
    /\ InNormal(v)


\* C12: the cancel key never persists the draft: while the form is open the
\* persisted tasks and task-tag links are those of the moment it was opened,
\* and the cancel key makes no call, changes no row and issues no reload
C12_CancelNeverPersists ==
    /\ v.editing => Persisted(db) = hist.editDb
    /\ (Running /\ v.editing) =>
          \A k \in KeyBack, ok \in BOOLEAN :
              LET r == Update(v, db, KeyMsg(k), ok)
              IN /\ r.calls = <<>> /\ r.db = db /\ r.cmds = <<>>
                 /\ ~r.v.editing
    /\ hist.lastKey = "edit-cancelled" => Persisted(db) = hist.editDb

\* C12 witness: the form was cancelled after tags were toggled in it
C12_Witness ==
    /\ Running
    /\ hist.lastKey = "edit-cancelled"
    /\ ~v.editing
    /\ v.editTags # hist.editOpened.tags


\* C13: when the draft differs from the values the form was opened with,
\* Esc alone does not leave the edit form (a prompt asks first)
C13_UnsavedChangesProtected ==
    (Running /\ v.editing /\ Draft(v) # hist.editOpened) =>
        \A k \in KeyBack :
            Update(v, db, KeyMsg(k), TRUE).v.editing


\* the tag calls among the persistence calls of a step
TagCalls(calls) ==
    {calls[i] : i \in {j \in 1..Len(calls) :
                          calls[j][1] \in {"AddTagToTask", "RemoveTagFromTask"}}}

\* C14: a successful save of an existing task leaves the task's persisted
\* tag set equal to the draft's tag set, and the tag calls it makes are the
\* removals of the persisted tags not in the draft and the additions of the
\* draft tags not persisted
C14_SaveConvergesTags ==
    (Running /\ v.editing /\ ~v.editingNew /\ TrimSpace(v.editTitle) # <<>>
       /\ CursorInRange(v)) =>
        \A k \in SaveKeys(v) :
            LET id == CursorTask(v).id
                r == Update(v, db, KeyMsg(k), TRUE)
                persisted == TaskTagSet(db, id)
                draft == Range(v.editTags)
            IN id \in DOMAIN db.tasks =>
                  /\ TaskTagSet(r.db, id) = draft
                  /\ TagCalls(r.calls) =
                        {<<"RemoveTagFromTask", id, t>> : t \in persisted \ draft}
                        \cup {<<"AddTagToTask", id, t>> : t \in draft \ persisted}


\* the tags of a task that belong to a group
TagsOfGroup(dd, taskID, g) == {t \in TaskTagSet(dd, taskID) : TagGroupOf(t) = g}

\* every task holds at most one tag of each tag group
OnePerGroup(dd) ==
    \A id \in DOMAIN dd.tasks, t \in TagIds :
        Cardinality(TagsOfGroup(dd, id, TagGroupOf(t))) <= 1

\* C15: at every point of a sequence of tag toggles the persisted tag set of
\* a task holds at most one tag of each group; a toggle that adds a grouped
\* tag leaves that tag as the task's only tag of the group
C15_OneTagPerGroup ==
    /\ OnePerGroup(db)
    /\ (Running /\ v.assigningTags /\ ~v.showHelpPopup) =>
          \A k \in KeyEnter \cup {" "} :
              LET r == Update(v, db, KeyMsg(k), TRUE)
              IN /\ OnePerGroup(r.db)
                 /\ \A i \in 1..Len(r.calls) :
                       (r.calls[i][1] = "AddTagToTask"
                          /\ r.calls[i][2] \in DOMAIN db.tasks) =>
                           TagsOfGroup(r.db, r.calls[i][2],
                                       TagGroupOf(r.calls[i][3])) = {r.calls[i][3]}

\* C15 witness: the last toggle added a tag to a task that held another tag
\* of the same group
C15_Witness ==
    /\ Running
    /\ hist.lastKey = "tag-replaced"
    /\ \E id \in DOMAIN db.tasks : TaskTagSet(db, id) \cap {TagActive, TagDesign} # {}


\* C16: no sequence of key events and load results ends the session with a
\* run-time panic: every v.tasks[v.cursor] of a key handler is in range
C16_NoPanic == alive # "panicked"


\* C17: when CreateTask fails during the save of a new-task draft the view
\* returns to Normal mode, nothing is persisted and no reload is issued
C17_CreateFailureReturnsToList ==
    /\ (Running /\ v.editing /\ v.editingNew /\ TrimSpace(v.editTitle) # <<>>) =>
          \A k \in SaveKeys(v) :
              LET r == Update(v, db, KeyMsg(k), FALSE)
              IN /\ r.calls = <<<<"CreateTask", NoID>>>>
                 /\ r.db = db /\ r.cmds = <<>>
                 /\ ~r.panic /\ r.signal = "none"
                 /\ InNormal(r.v)
    /\ hist.lastKey = "create-failed" =>
          /\ InNormal(v)
          /\ Persisted(db) = hist.editDb

\* C17 witness: the save of a new-task draft with a title has just failed
C17_Witness ==
    /\ Running
    /\ hist.lastKey = "create-failed"
    /\ v.editingNew
    /\ TrimSpace(v.editTitle) # <<>>
    /\ ~v.editing


\* C18: when DeleteTask fails on the affirmative key the confirmation is
\* closed and the view is back in the mode the dialog was opened from; the
\* persisted tasks are unchanged and no reload is issued
C18_DeleteFailureClosesDialog ==
    /\ (Running /\ v.confirmingDelete /\ ~v.showHelpPopup) =>
          \A k \in {"y", "Y"} :
              LET r == Update(v, db, KeyMsg(k), FALSE)
              IN /\ r.v = [v EXCEPT !.confirmingDelete = FALSE]
                 /\ r.calls = <<<<"DeleteTask", v.deleteTargetID>>>>
                 /\ r.db = db /\ r.cmds = <<>>
                 /\ ~r.panic /\ r.signal = "none"
    /\ hist.lastKey = "delete-failed" => ~v.confirmingDelete

\* C18 witness: DeleteTask has just failed on the affirmative key
C18_Witness ==
    /\ Running
    /\ hist.lastKey = "delete-failed"
    /\ v.deleteTargetID \in DOMAIN db.tasks

\* C18 as stated: when DeleteTask fails the view is still in ConfirmingDelete,
\* the persisted tasks are unchanged and no reload is issued
C18_DeleteFailureStaysInConfirm ==
    (Running /\ v.confirmingDelete /\ ~v.showHelpPopup) =>
        \A k \in {"y", "Y"} :
            LET r == Update(v, db, KeyMsg(k), FALSE)
            IN r.v.confirmingDelete /\ r.db = db /\ r.cmds = <<>>


\* the reload results waiting to be applied
PendingLoads == {m \in BagToSet(msgs) : m.type = "tasksLoadedMsg"}

\* C19: applying a reload result replaces the cached list with it and sets
\* cursor to min(cursor, len - 1), or to 0 when the result is empty; a cursor
\* within the new list is not moved
C19_ReloadClampsCursor ==
    /\ Running =>
          \A m \in PendingLoads :
              LET r == Update(v, db, m, TRUE)
                  n == Len(m.tasks)
              IN /\ r.v.tasks = m.tasks
                 /\ r.v.cursor = IF n = 0 THEN 0 ELSE Min(v.cursor, n - 1)
                 /\ v.cursor < n => r.v.cursor = v.cursor
                 /\ r.cmds = <<>> /\ r.db = db
    /\ hist.lastLoad = "clamped" => v.cursor = Max(0, Len(v.tasks) - 1)

\* C19 witness: a reload result shorter than the cursor position, and not
\* empty, has been applied and has moved the cursor
C19_Witness ==
    /\ Running
    /\ hist.lastLoad = "clamped"
    /\ Len(v.tasks) > 0
    /\ v.cursor = Len(v.tasks) - 1


\* the tag-assignment reconciliation of a reload: the session is closed when
\* its task is not in the result
Reconciled(vv, tasks) ==
    IF vv.assigningTags /\ vv.assigningTaskID # NoID
       /\ vv.assigningTaskID \notin TaskIDs(tasks)
    THEN [assigningTags |-> FALSE, assigningTaskID |-> NoID]
    ELSE [assigningTags |-> vv.assigningTags, assigningTaskID |-> vv.assigningTaskID]

\* C20: a reload result is applied in whatever mode it arrives and however
\* stale it is: it replaces the cached list, the cursor is clamped, the
\* tag-assignment session is reconciled, and no other mode flag and no other
\* field of the view changes
C20_ReloadAlwaysApplied ==
    Running =>
       \A m \in PendingLoads :
           LET r == Update(v, db, m, TRUE)
               n == Len(m.tasks)
               rec == Reconciled(v, m.tasks)
           IN /\ r.v.tasks = m.tasks
              /\ r.v.cursor = IF v.cursor >= n THEN Max(0, n - 1) ELSE v.cursor
              /\ r.v.assigningTags = rec.assigningTags
              /\ r.v.assigningTaskID = rec.assigningTaskID
              /\ ModeFlags(r.v) \ {"assigningTags"} = ModeFlags(v) \ {"assigningTags"}
              /\ \A f \in DOMAIN v \ {"tasks", "cursor", "assigningTags", "assigningTaskID"} :
                     r.v[f] = v[f]
              /\ ~r.panic

\* C20 witness: a result that lists a task deleted since it was read has been
\* applied while a dialog or an overlay was open
C20_Witness ==
    /\ Running
    /\ hist.lastLoad # "none"
    /\ ModeFlags(v) \ {"assigningTags"} # {}
    /\ \E i \in 1..Len(v.tasks) : v.tasks[i].id \notin DOMAIN db.tasks


\* a comes no later than b under priority descending, then creation time
\* descending
InOrder(a, b) ==
    \/ a.priority > b.priority
    \/ a.priority = b.priority /\ a.created >= b.created

Ordered(tasks) == \A i \in 1..(Len(tasks) - 1) : InOrder(tasks[i], tasks[i + 1])

\* C21: the cached task list, and every reload result still to be applied, is
\* ordered by priority descending and, among equal priorities, by creation
\* time descending
C21_CachedListOrdered ==
    /\ Ordered(v.tasks)
    /\ \A m \in PendingLoads : Ordered(m.tasks)

\* C21 witness: a reload has been applied whose result holds two tasks of
\* equal priority, the later created first
C21_Witness ==
    /\ Running
    /\ hist.lastLoad # "none"
    /\ \E i \in 1..(Len(v.tasks) - 1) :
          /\ v.tasks[i].priority = v.tasks[i + 1].priority
          /\ v.tasks[i].created > v.tasks[i + 1].created


\* text contains sub as a substring, the case of ASCII letters set aside
Contains(text, sub) ==
    \E i \in 0..(Len(text) - Len(sub)) :
        LowerText(SubSeq(text, i + 1, i + Len(sub))) = LowerText(sub)

\* the tasks of the open project that contain s in title or description, bear
\* tag t when it is set and do not bear tag x when it is set
Matches(dd, s, t, x) ==
    {id \in DOMAIN dd.tasks :
        /\ dd.tasks[id].project = ProjectID
        /\ s = <<>> \/ Contains(dd.tasks[id].title, s)
                    \/ Contains(dd.tasks[id].description, s)
        /\ t # NoID => <<id, t>> \in dd.taskTags
        /\ x # NoID => <<id, x>> \notin dd.taskTags}

\* the tag a reload computed now excludes
Exclusion(vv, dd) ==
    LET v1 == loadTasks(vv, dd, TRUE).v
    IN IF ~v1.showingCompleted THEN v1.completeTagID ELSE NoID

\* C22: a reload computed for the trimmed search text s, the tag filter t and
\* the exclusion x returns exactly the tasks of the project whose title or
\* description contains s as a case-insensitive substring, that bear t when
\* it is set and do not bear x when it is set, each once
C22_ReloadReturnsMatches ==
    Running =>
       \A m \in loadTasks(v, db, TRUE).msgs :
           /\ TaskIDs(m.tasks) = Matches(db, TrimSpace(v.searchInput),
                                         v.selectedTag, Exclusion(v, db))
           /\ Len(m.tasks) = Cardinality(TaskIDs(m.tasks))


\* C23: a window-resize event, in any mode, changes only the stored width and
\* height: every other field of the view and the store are unchanged, and no
\* command, signal or persistence call comes of it
C23_ResizeOnlyStoresSize ==
    Running =>
       \A size \in WindowSizes :
           LET r == Update(v, db, [type |-> "WindowSizeMsg", width |-> size[1],
                                   height |-> size[2]], TRUE)
           IN /\ r.v.width = size[1] /\ r.v.height = size[2]
              /\ \A f \in DOMAIN v \ {"width", "height"} : r.v[f] = v[f]
              /\ r.db = db
              /\ r.cmds = <<>> /\ r.calls = <<>> /\ r.signal = "none"
              /\ ~r.panic

\* C23 witness: the window was resized while the help overlay was open, over a
\* list whose cursor is not on the first row
C23_Witness ==
    /\ Running
    /\ v.showHelpPopup
    /\ hist.beforeHelp.height # v.height
    /\ v.cursor > 0


\* the ids of the tasks a handler passed to CreateTask or UpdateTask
WrittenTasks(r) ==
    {r.calls[i][2] : i \in {j \in 1..Len(r.calls) :
                               r.calls[j][1] \in {"CreateTask", "UpdateTask"}}}

\* C24: every priority a save writes lies in [0,10]: whatever the priority
\* field holds, the row written by CreateTask/UpdateTask carries the parsed
\* integer brought into [0,10] (0 when the field does not parse), and every
\* persisted task has 0 <= priority <= 10
C24_SavedPriorityInRange ==
    /\ \A id \in DOMAIN db.tasks : db.tasks[id].priority \in 0..10
    /\ Running /\ v.editing =>
          \A k \in SaveKeys(v), ok \in BOOLEAN :
              LET r == Update(v, db, KeyMsg(k), ok)
                  n == Atoi(v.editPriority)
              IN \A id \in WrittenTasks(r) \cap DOMAIN r.db.tasks :
                     ok => r.db.tasks[id].priority =
                              IF n < 0 THEN 0 ELSE IF n > 10 THEN 10 ELSE n

\* C24 witness: a draft whose priority field holds a negative number has been
\* saved, and the task it was written to has priority 0
C24_Witness ==
    /\ Running
    /\ hist.lastKey = "edit-saved"
    /\ Atoi(v.editPriority) < 0
    /\ \E id \in DOMAIN db.tasks : db.tasks[id].priority = 0


\* the draft that the persisted row of a task and its tag links would seed
PersistedDraft(dd, id) ==
    [title |-> dd.tasks[id].title, desc |-> dd.tasks[id].description,
     notes |-> dd.tasks[id].notes, priority |-> FormatInt(dd.tasks[id].priority),
     tags |-> GetTaskTags(dd, id)]

\* C25: when the edit of an existing task is started, the draft's title,
\* description, notes, priority and tag ids are the task's persisted values at
\* that moment, also while a reload that would show an earlier write is
\* outstanding
C25_EditSeededFromPersisted ==
    Running /\ ~v.editing =>
       \A k \in KeyEdit :
           LET r == Update(v, db, KeyMsg(k), TRUE)
           IN r.v.editing /\ ~r.v.editingNew =>
                 /\ CursorTask(v).id \in DOMAIN db.tasks
                 /\ Draft(r.v) = PersistedDraft(db, CursorTask(v).id)


\* C26: a comment submission that is empty after trimming, or whose
\* CreateComment fails, changes nothing in the view or the store and issues
\* no reload; no key event changes the comment cache except by leaving the
\* detail view, and no message changes it except a comment-load result
C26_FailedCommentIsNoOp ==
    Running =>
       /\ v.viewingTask /\ v.commentInputFocused /\ ~v.showHelpPopup
          /\ ~v.confirmingDelete /\ ~v.editing =>
             \A ok \in BOOLEAN :
                 LET r == Update(v, db, KeyMsg("ctrl+s"), ok)
                     failed == r.calls # <<>> /\ r.db.comments = db.comments
                 IN /\ TrimSpace(v.commentInput) = <<>> \/ failed =>
                          r.v = v /\ r.db = db /\ r.cmds = <<>>
                    /\ r.v.viewTaskComments = v.viewTaskComments
       /\ \A k \in AllKeys, ok \in BOOLEAN :
             LET r == Update(v, db, KeyMsg(k), ok)
             IN r.v.viewTaskComments # v.viewTaskComments =>
                   v.viewingTask /\ ~r.v.viewingTask /\ r.v.viewTaskComments = <<>>
       /\ \A m \in BagToSet(msgs) :
             m.type # "commentsLoadedMsg" =>
                Update(v, db, m, TRUE).v.viewTaskComments = v.viewTaskComments

\* C26 witness: a submission whose CreateComment failed has left the text in
\* the focused input and no comment in the store
C26_Witness ==
    /\ Running
    /\ hist.lastKey = "comment-failed"
    /\ TrimSpace(v.commentInput) # <<>>
    /\ v.commentInputFocused
    /\ db.comments = <<>>


\* C27: whenever the view is not in the task detail view, the loaded comment
\* cache is empty
C27_CommentCacheEmptyOutsideDetail ==
    Running /\ ~v.viewingTask => v.viewTaskComments = <<>>


\* the key goes to updateEditing
InEditing(vv) == vv.editing /\ ~vv.showHelpPopup /\ ~vv.confirmingDelete

\* the key goes to updateAssigningTags
InAssigning(vv) ==
    /\ vv.assigningTags
    /\ ~vv.showHelpPopup /\ ~vv.confirmingDelete /\ ~vv.editing /\ ~vv.viewingTask

\* C28: a toggle in the tag selector of the edit form makes no persistence
\* call and issues no reload, and while the form is open the persisted
\* task-tag links are those of the moment it was opened; a toggle in the tag
\* assignment makes exactly one call, AddTagToTask or RemoveTagFromTask, and
\* returns a reload
C28_EditTogglesStagedAssignWritesThrough ==
    Running =>
       /\ InEditing(v) /\ v.editFocusIdx = 4 =>
             \A k \in {"enter", " "}, ok \in BOOLEAN :
                 LET r == Update(v, db, KeyMsg(k), ok)
                 IN r.calls = <<>> /\ r.cmds = <<>> /\ r.db = db /\ r.v.editing
       /\ v.editing => db.taskTags = hist.editDb.taskTags
       /\ InAssigning(v) /\ Len(v.tasks) > 0 /\ v.assignTagCursor < Len(v.tags) =>
             \A k \in {"enter", " "}, ok \in BOOLEAN :
                 LET r == Update(v, db, KeyMsg(k), ok)
                 IN /\ ~r.panic
                    /\ Len(r.calls) = 1
                    /\ r.calls[1][1] \in {"AddTagToTask", "RemoveTagFromTask"}
                    /\ r.cmds = <<"loadTasks">>

\* C28 witness: the draft of an open edit form holds a tag toggled since the
\* form was opened, and the persisted links are as they were
C28_Witness ==
    /\ Running
    /\ InEditing(v)
    /\ ~v.editingNew
    /\ Range(v.editTags) # Range(hist.editOpened.tags)
    /\ db.taskTags = hist.editDb.taskTags


ToggledTags(vv) ==
    IF vv.editTagCursor >= Len(vv.tags) THEN Range(vv.editTags)
    ELSE LET tag == vv.tags[vv.editTagCursor + 1]
         IN IF tag \in Range(vv.editTags) THEN Range(vv.editTags) \ {tag}
            ELSE Range(vv.editTags) \cup {tag}

\* C30: in the edit form Enter submits only on the save button: on the title
\* or the priority field it moves the focus on by one and saves nothing, on
\* the description or the notes field it leaves focus and mode and goes to the
\* field as a newline, on the tag selector it toggles the tag under the tag
\* cursor
C30_EnterSubmitsOnlyOnSaveButton ==
    Running /\ InEditing(v) =>
       \A ok \in BOOLEAN :
           LET r == Update(v, db, KeyMsg("enter"), ok)
               idx == v.editFocusIdx
               quiet == /\ r.db = db /\ r.cmds = <<>> /\ r.calls = <<>>
                        /\ r.v.editing /\ r.signal = "none" /\ ~r.panic
           IN /\ idx \in {0, 3} =>
                    quiet /\ r.v = [v EXCEPT !.editFocusIdx = idx + 1]
              /\ idx = 1 =>
                    /\ quiet
                    /\ r.v = [v EXCEPT !.editDesc =
                                 TextAreaUpdate(v.editDesc, "enter", DescCharLimit)]
                    /\ r.v.editDesc = Append(v.editDesc, "\n")
              /\ idx = 2 =>
                    /\ quiet
                    /\ r.v = [v EXCEPT !.editNotes =
                                 TextAreaUpdate(v.editNotes, "enter", NotesCharLimit)]
                    /\ r.v.editNotes = Append(v.editNotes, "\n")
              /\ idx = 4 =>
                    /\ quiet
                    /\ Range(r.v.editTags) = ToggledTags(v)
                    /\ \A f \in DOMAIN v \ {"editTags"} : r.v[f] = v[f]
              /\ idx = 5 => r = saveTask(v, db, ok) /\ ~r.v.editing
              /\ r.db # db \/ ~r.v.editing \/ r.cmds # <<>> => idx = 5

\* C30 witness: Enter has moved the focus from the title to the description
\* of the draft of an existing task and has then put a newline into the
\* description, and the form is open and nothing has been written
C30_Witness ==
    /\ Running
    /\ InEditing(v)
    /\ ~v.editingNew
    /\ v.editFocusIdx = 1
    /\ v.editDesc = <<"\n">>
    /\ v.editTitle = hist.editOpened.title
    /\ Persisted(db) = hist.editDb
    /\ nkeys = 3


C32_ToggleHitsCapturedTask ==
    Running /\ InAssigning(v) =>
       \A k \in {"enter", " "}, ok \in BOOLEAN :
           LET r == Update(v, db, KeyMsg(k), ok)
           IN \A i \in 1..Len(r.calls) : r.calls[i][2] = v.assigningTaskID


\* C33: saving the edit of an existing task with a non-empty title writes to
\* the task that was under the cursor when the edit was started: UpdateTask
\* and the tag sync are called for that id, never for another task and never
\* for none
C33_SaveWritesEditedTask ==
    Running /\ InEditing(v) /\ ~v.editingNew /\ TrimSpace(v.editTitle) # <<>> =>
       \A k \in SaveKeys(v) :
           LET r == Update(v, db, KeyMsg(k), TRUE)
           IN /\ ~r.panic
              /\ r.calls # <<>>
              /\ \A i \in 1..Len(r.calls) : r.calls[i][2] = hist.editTarget


\* a comment load is on its way: the command is pending or its result is
\* waiting to be applied
CommentLoadOutstanding ==
    \/ "loadTaskComments" \in BagToSet(cmds)
    \/ \E m \in BagToSet(msgs) : m.type = "commentsLoadedMsg"

\* C34: in the task detail view, with no other dialog over it and no comment
\* load outstanding, every comment of the comment cache is a comment of the
\* task displayed, tasks[cursor]
C34_CommentsOfDisplayedTask ==
    /\ Running /\ ModeFlags(v) = {"viewingTask"}
    /\ ~CommentLoadOutstanding /\ CursorInRange(v)
    => \A i \in 1..Len(v.viewTaskComments) :
           v.viewTaskComments[i].task = CursorTask(v).id


\* the rows renderTaskList draws hold the cursor
CursorDrawn(vv) ==
    /\ vv.scrollY <= vv.cursor
    /\ vv.cursor < Min(vv.scrollY + RenderVisibleItems(vv.height), Len(vv.tasks))

\* C35: a cursor move in the list keeps the selected task among the rows
\* renderTaskList draws: when the cursor row is drawn before Up or Down, the
\* new cursor row is drawn after it, at every window height
C35_CursorMoveKeepsSelectionDrawn ==
    Running /\ InNormal(v) /\ v.focus = FocusTaskList /\ CursorDrawn(v) =>
       \A k \in {"up", "down"} : CursorDrawn(Update(v, db, KeyMsg(k), TRUE).v)


\* C36: in Normal mode Tab moves the sub-focus to the next area of the ring
\* BackButton, SearchInput, TagDropdown, TaskList and Shift+Tab to the
\* previous one, from every sub-focus
C36_FocusKeysCycleRing ==
    Running /\ InNormal(v) =>
       /\ Update(v, db, KeyMsg("tab"), TRUE).v.focus = (v.focus + 1) % 4
       /\ Update(v, db, KeyMsg("shift+tab"), TRUE).v.focus = (v.focus + 3) % 4


\* C37: with every data access succeeding, once no command is waiting to run
\* and no result is waiting to be applied, the cached list is the result of
\* the filtered query for the current search text, tag filter and
\* showingCompleted flag against the current store
C37_QuiescentListIsCurrentQuery ==
    Running /\ cmds = EmptyBag /\ msgs = EmptyBag =>
       \A m \in loadTasks(v, db, TRUE).msgs : v.tasks = m.tasks


\* C38: a toggle in the tag-assignment dialog acts on the stored membership
\* of the task it writes to: it calls RemoveTagFromTask when the store holds
\* the pair of task and tag, and AddTagToTask when it does not
C38_ToggleFollowsStore ==
    Running /\ InAssigning(v) =>
       \A k \in {"enter", " "} :
           LET r == Update(v, db, KeyMsg(k), TRUE)
           IN \A i \in 1..Len(r.calls) :
                  r.calls[i][1] =
                     IF <<r.calls[i][2], r.calls[i][3]>> \in db.taskTags
                     THEN "RemoveTagFromTask" ELSE "AddTagToTask"


\* two tags of one group are staged in the draft
DraftHoldsGroupTwice(vv) ==
    \E t1, t2 \in Range(vv.editTags) : t1 # t2 /\ TagGroupOf(t1) = TagGroupOf(t2)

\* C39: in every persisted state each task holds at most one tag of each tag
\* group, and saving a draft, of a new or an existing task, whatever tags it
\* holds, leaves the store so
C39_StoreOnePerGroup ==
    /\ OnePerGroup(db)
    /\ (Running /\ InEditing(v)) =>
          \A k \in SaveKeys(v), ok \in BOOLEAN :
              OnePerGroup(Update(v, db, KeyMsg(k), ok).db)

\* C39 witness: a new task has been saved from a draft that held two tags of
\* one group, and the store holds one of them for it
C39_Witness ==
    /\ Running
    /\ hist.lastKey = "edit-saved"
    /\ DraftHoldsGroupTwice(v)
    /\ \E id \in DOMAIN db.tasks :
          /\ id > InitTasks
          /\ Cardinality(TaskTagSet(db, id) \cap Range(v.editTags)) = 1


\* C40: every task of the cached list of the task-list view belongs to the
\* project the view was opened on
C40_CachedTasksOfViewProject ==
    Running => \A i \in 1..Len(v.tasks) : v.tasks[i].project = v.project

=============================================================================
